---------------------------- MODULE Spec2Model ----------------------------
(***************************************************************************)
(* Model of the HTTP service of src/src/main.rs: seven POST handlers that  *)
(* parse a JSON body, validate its fields, call the Solana SDK and wrap    *)
(* the result in a success or error envelope.                              *)
(*                                                                         *)
(* Text is a sequence of Unicode code points, binary data a sequence of    *)
(* bytes (0..255), a u64 a sequence of five base-10000 limbs, most         *)
(* significant first.                                                      *)
(***************************************************************************)
EXTENDS Integers, Sequences, FiniteSets, TLC

VARIABLES pc, req, local, resp, chained, sdkCalls, responses

vars == <<pc, req, local, resp, chained, sdkCalls, responses>>

(***************************************************************************)
(* Generic helpers                                                         *)
(***************************************************************************)
SetMin(S) == CHOOSE x \in S : \A y \in S : x <= y

SetMax(S) == CHOOSE x \in S : \A y \in S : x >= y

Ok(v) == [ok |-> TRUE, v |-> v]

Err == [ok |-> FALSE, v |-> <<>>]

Repeat(x, n) == [i \in 1..n |-> x]

Reverse(s) == [i \in 1..Len(s) |-> s[Len(s) + 1 - i]]

(***************************************************************************)
(* str primitives used by the validators (Rust std)                        *)
(***************************************************************************)
\* char::is_whitespace: the Unicode White_Space property.
IsWhitespace(c) ==
    \/ c \in 9..13
    \/ c \in {32, 133, 160, 5760, 8232, 8233, 8239, 8287, 12288}
    \/ c \in 8192..8202

\* char::is_control: general category Cc.
IsControl(c) == c \in 0..31 \/ c \in 127..159

\* str::trim: drop leading and trailing whitespace.
Trim(s) ==
    LET keep == {i \in 1..Len(s) : ~IsWhitespace(s[i])}
    IN  IF keep = {} THEN <<>> ELSE SubSeq(s, SetMin(keep), SetMax(keep))

\* str::len: the length of the UTF-8 encoding, in bytes.
ByteLen(s) ==
    Len(s) + Cardinality({i \in 1..Len(s) : s[i] >= 128})
           + Cardinality({i \in 1..Len(s) : s[i] >= 2048})
           + Cardinality({i \in 1..Len(s) : s[i] >= 65536})

\* char lowercase mapping for the code points the model uses: ASCII,
\* Latin-1 and the Kelvin sign (U+212A, whose lowercase is ASCII k).
LowerChar(c) ==
    IF c \in 65..90 THEN c + 32
    ELSE IF c \in 192..222 /\ c # 215 THEN c + 32
    ELSE IF c = 8490 THEN 107
    ELSE c

\* str::to_lowercase
ToLowercase(s) == [i \in 1..Len(s) |-> LowerChar(s[i])]

\* str::contains(&str)
Contains(s, p) ==
    \E i \in 1..(Len(s) - Len(p) + 1) :
        s[i] = p[1] /\ SubSeq(s, i, i + Len(p) - 1) = p

(***************************************************************************)
(* is_suspicious_text                                                      *)
(***************************************************************************)
MaxTextLen == 1000

suspicious_patterns == <<
    <<100, 114, 111, 112, 32, 116, 97, 98, 108, 101>>,            \* drop table
    <<100, 101, 108, 101, 116, 101, 32, 102, 114, 111, 109>>,     \* delete from
    <<105, 110, 115, 101, 114, 116, 32, 105, 110, 116, 111>>,     \* insert into
    <<117, 112, 100, 97, 116, 101, 32, 115, 101, 116>>,           \* update set
    <<117, 110, 105, 111, 110, 32, 115, 101, 108, 101, 99, 116>>, \* union select
    <<39, 32, 111, 114, 32, 39>>,                                 \* ' or '
    <<34, 32, 111, 114, 32, 34>>,                                 \* " or "
    <<59, 32, 45, 45>>,                                           \* ; --
    <<47, 42>>,                                                   \* slash star
    <<42, 47>>,                                                   \* star slash
    <<60, 115, 99, 114, 105, 112, 116>>,                          \* <script
    <<60, 47, 115, 99, 114, 105, 112, 116>>,                      \* </script
    <<106, 97, 118, 97, 115, 99, 114, 105, 112, 116, 58>>,        \* javascript:
    <<100, 97, 116, 97, 58>>,                                     \* data:
    <<118, 98, 115, 99, 114, 105, 112, 116, 58>>,                 \* vbscript:
    <<111, 110, 108, 111, 97, 100, 61>>,                          \* onload=
    <<111, 110, 101, 114, 114, 111, 114, 61>>,                    \* onerror=
    <<111, 110, 99, 108, 105, 99, 107, 61>>,                      \* onclick=
    <<46, 46, 47>>,                                               \* ../
    <<46, 46, 92>> >>                                             \* ..\

\* A plausible slip: the patterns are matched against the text as given,
\* without lowercasing it first.
is_suspicious_text_case_sensitive(s) ==
    LET t == Trim(s)
    IN  IF t = <<>> THEN TRUE
        ELSE IF ByteLen(t) > MaxTextLen THEN TRUE
        ELSE IF \/ \E i \in 1..Len(t) : t[i] = 0
                \/ \E i \in 1..Len(t) : IsControl(t[i]) /\ t[i] \notin {10, 13, 9}
             THEN TRUE
        ELSE \E k \in 1..Len(suspicious_patterns) :
                 Contains(t, suspicious_patterns[k])

is_suspicious_text(s) ==
    LET t == Trim(s)
    IN  IF t = <<>> THEN TRUE
        ELSE IF ByteLen(t) > MaxTextLen THEN TRUE
        ELSE IF \/ \E i \in 1..Len(t) : t[i] = 0
                \/ \E i \in 1..Len(t) : IsControl(t[i]) /\ t[i] \notin {10, 13, 9}
             THEN TRUE
        ELSE LET lower_s == ToLowercase(t)
             IN  \E k \in 1..Len(suspicious_patterns) :
                     Contains(lower_s, suspicious_patterns[k])

(***************************************************************************)
(* bs58 codec (Bitcoin alphabet) and base64 STANDARD codec                 *)
(***************************************************************************)
Base58Alphabet == <<
    49, 50, 51, 52, 53, 54, 55, 56, 57, 65, 66, 67, 68, 69, 70, 71, 72, 74,
    75, 76, 77, 78, 80, 81, 82, 83, 84, 85, 86, 87, 88, 89, 90, 97, 98, 99,
    100, 101, 102, 103, 104, 105, 106, 107, 109, 110, 111, 112, 113, 114,
    115, 116, 117, 118, 119, 120, 121, 122 >>

Base64Alphabet == <<
    65, 66, 67, 68, 69, 70, 71, 72, 73, 74, 75, 76, 77, 78, 79, 80, 81, 82,
    83, 84, 85, 86, 87, 88, 89, 90, 97, 98, 99, 100, 101, 102, 103, 104, 105,
    106, 107, 108, 109, 110, 111, 112, 113, 114, 115, 116, 117, 118, 119,
    120, 121, 122, 48, 49, 50, 51, 52, 53, 54, 55, 56, 57, 43, 47 >>

\* One pass of the codecs' long arithmetic over digits[lo..hi] (least
\* significant first, in base `base`): each digit times mul plus the carry
\* from the digit before. Gives the new digits and the carry out. The
\* range is halved rather than walked, and each half is evaluated before
\* the next is entered, which keeps the evaluation shallow.
RECURSIVE MulAddRange(_, _, _, _, _, _)
MulAddRange(digits, lo, hi, mul, carry, base) ==
    IF lo > hi THEN [d |-> <<>>, c |-> carry]
    ELSE IF lo = hi
    THEN LET v == digits[lo] * mul + carry
         IN  [d |-> <<v % base>>, c |-> v \div base]
    ELSE LET mid   == (lo + hi) \div 2
             left  == MulAddRange(digits, lo, mid, mul, carry, base)
             right == MulAddRange(digits, mid + 1, hi, mul, left.c, base)
         IN  IF left.c >= 0 /\ right.c >= 0
             THEN [d |-> left.d \o right.d, c |-> right.c]
             ELSE [d |-> <<>>, c |-> 0]

\* The digits of a carry, least significant first.
RECURSIVE CarryDigits(_, _)
CarryDigits(carry, base) ==
    IF carry = 0 THEN <<>>
    ELSE <<carry % base>> \o CarryDigits(carry \div base, base)

\* digits * mul + carry, growing the number by the digits of the last carry.
MulAdd(digits, mul, carry, base) ==
    LET r == MulAddRange(digits, 1, Len(digits), mul, carry, base)
    IN  r.d \o CarryDigits(r.c, base)

\* Rewrite the number with big-endian digits src[lo..hi] (each < mul) in
\* base `base`, least significant digit first, starting from acc.
RECURSIVE ConvertRange(_, _, _, _, _, _)
ConvertRange(src, lo, hi, acc, mul, base) ==
    IF lo > hi THEN acc
    ELSE IF lo = hi THEN MulAdd(acc, mul, src[lo], base)
    ELSE LET mid  == (lo + hi) \div 2
             left == ConvertRange(src, lo, mid, acc, mul, base)
         IN  IF Len(left) >= 0
             THEN ConvertRange(src, mid + 1, hi, left, mul, base)
             ELSE <<>>

Convert(src, mul, base) == ConvertRange(src, 1, Len(src), <<>>, mul, base)

LeadingCount(s, x) ==
    LET other == {i \in 1..Len(s) : s[i] # x}
    IN  IF other = {} THEN Len(s) ELSE SetMin(other) - 1

\* The value of a character in the Bitcoin alphabet, -1 outside it: the
\* inverse of Base58Alphabet, by its runs.
Base58Value(c) ==
    IF c \in 49..57 THEN c - 49
    ELSE IF c \in 65..72 THEN c - 56
    ELSE IF c \in 74..78 THEN c - 57
    ELSE IF c \in 80..90 THEN c - 58
    ELSE IF c \in 97..107 THEN c - 64
    ELSE IF c \in 109..122 THEN c - 65
    ELSE -1

\* bs58::decode(s).into_vec()
Base58Decode(s) ==
    IF \E i \in 1..Len(s) : Base58Value(s[i]) < 0 THEN Err
    ELSE LET vals == [i \in 1..Len(s) |-> Base58Value(s[i])]
             le   == Convert(vals, 58, 256)
         IN  Ok(Repeat(0, LeadingCount(vals, 0)) \o Reverse(le))

\* bs58::encode(bytes).into_string()
Base58Encode(bytes) ==
    LET le     == Convert(bytes, 256, 58)
        digits == Repeat(0, LeadingCount(bytes, 0)) \o Reverse(le)
    IN  [i \in 1..Len(digits) |-> Base58Alphabet[digits[i] + 1]]

\* general_purpose::STANDARD.encode(bytes): padded.
Base64Encode(bytes) ==
    LET n    == Len(bytes)
        B(i) == IF i <= n THEN bytes[i] ELSE 0
        Sym(q, k) ==
            LET b1 == B(3 * q + 1)
                b2 == B(3 * q + 2)
                b3 == B(3 * q + 3)
            IN  IF k = 1 THEN Base64Alphabet[(b1 \div 4) + 1]
                ELSE IF k = 2 THEN Base64Alphabet[((b1 % 4) * 16 + (b2 \div 16)) + 1]
                ELSE IF k = 3
                THEN IF 3 * q + 2 > n THEN 61
                     ELSE Base64Alphabet[((b2 % 16) * 4 + (b3 \div 64)) + 1]
                ELSE IF 3 * q + 3 > n THEN 61
                     ELSE Base64Alphabet[(b3 % 64) + 1]
    IN  [i \in 1..(4 * ((n + 2) \div 3)) |-> Sym((i - 1) \div 4, ((i - 1) % 4) + 1)]

\* The value of a character in the standard alphabet, -1 outside it: the
\* inverse of Base64Alphabet, by its runs.
Base64Value(c) ==
    IF c \in 65..90 THEN c - 65
    ELSE IF c \in 97..122 THEN c - 71
    ELSE IF c \in 48..57 THEN c + 4
    ELSE IF c = 43 THEN 62
    ELSE IF c = 47 THEN 63
    ELSE -1

\* general_purpose::STANDARD.decode(s): canonical padding required, no
\* non-zero trailing bits, no character outside the alphabet.
Base64Decode(s) ==
    LET n   == Len(s)
        pad == IF n >= 1 /\ s[n] = 61
               THEN (IF n >= 2 /\ s[n - 1] = 61 THEN 2 ELSE 1)
               ELSE 0
        m   == n - pad
        V(i) == Base64Value(s[i])
        nb  == 3 * (n \div 4) - pad
        Byte(j) ==
            LET q == (j - 1) \div 3
                k == (j - 1) % 3
                a == V(4 * q + 1)
                b == V(4 * q + 2)
            IN  IF k = 0 THEN a * 4 + (b \div 16)
                ELSE IF k = 1 THEN (b % 16) * 16 + (V(4 * q + 3) \div 4)
                ELSE (V(4 * q + 3) % 4) * 64 + V(4 * q + 4)
    IN  IF n % 4 # 0 THEN Err
        ELSE IF \E i \in 1..m : Base64Value(s[i]) < 0 THEN Err
        ELSE IF pad = 1 /\ V(m) % 4 # 0 THEN Err
        ELSE IF pad = 2 /\ V(m) % 16 # 0 THEN Err
        ELSE Ok([j \in 1..nb |-> Byte(j)])

(***************************************************************************)
(* Numbers. A JSON number is a sign and a magnitude of five base-10000     *)
(* limbs, most significant first, which holds every u64 and a little more. *)
(***************************************************************************)
LimbBase == 10 ^ 4

Limbs == 1..5

\* a < b on limb sequences.
LimbsLess(a, b) ==
    \E i \in Limbs : a[i] < b[i] /\ \A j \in 1..(i - 1) : a[j] = b[j]

LimbsZero == [i \in Limbs |-> 0]

\* The limbs of a small number (below LimbBase).
Small(n) == [i \in Limbs |-> IF i = 5 THEN n ELSE 0]

\* u64::MAX = 18446744073709551615
U64_MAX == <<1844, 6744, 737, 955, 1615>>

\* u64::MAX / 2 = 9223372036854775807
U64_MAX_HALF == <<922, 3372, 368, 5477, 5807>>

\* 1_000_000_000_000_000_000
MaxLamports == <<100, 0, 0, 0, 0>>

U8_MAX == 255

MaxDecimals == 9

\* u64::to_le_bytes
U64ToLeBytes(n) ==
    LET le == Convert(n, LimbBase, 256)
    IN  [i \in 1..8 |-> IF i <= Len(le) THEN le[i] ELSE 0]

(***************************************************************************)
(* JSON bodies and serde deserialization into the request structs          *)
(***************************************************************************)
JAbsent == [t |-> "absent", s |-> <<>>, neg |-> FALSE, mag |-> LimbsZero]

JStr(s) == [t |-> "str", s |-> s, neg |-> FALSE, mag |-> LimbsZero]

JNum(neg, mag) == [t |-> "num", s |-> <<>>, neg |-> neg, mag |-> mag]

None == [some |-> FALSE, s |-> <<>>, n |-> LimbsZero]

SomeStr(s) == [some |-> TRUE, s |-> s, n |-> LimbsZero]

SomeNum(n) == [some |-> TRUE, s |-> <<>>, n |-> n]

\* Option<String>: a missing or null member is None, a JSON string is Some,
\* any other JSON value fails the deserialization.
DeOptString(v) ==
    IF v.t = "absent" THEN Ok(None)
    ELSE IF v.t = "str" THEN Ok(SomeStr(v.s))
    ELSE Err

\* Option<u64> (max = U64_MAX) and Option<u8> (max = Small(U8_MAX)).
DeOptUnsigned(v, max) ==
    IF v.t = "absent" THEN Ok(None)
    ELSE IF v.t = "num" /\ ~v.neg /\ ~LimbsLess(max, v.mag)
         THEN Ok(SomeNum(v.mag))
    ELSE Err

\* The fields of each request struct and their types.
StructFields(endpoint) ==
    CASE endpoint = "/token/create" ->
             [mintAuthority |-> "string", mint |-> "string", decimals |-> "u8"]
      [] endpoint = "/token/mint" ->
             [mint |-> "string", destination |-> "string",
              authority |-> "string", amount |-> "u64"]
      [] endpoint = "/message/sign" ->
             [message |-> "string", secret |-> "string"]
      [] endpoint = "/message/verify" ->
             [message |-> "string", signature |-> "string", pubkey |-> "string"]
      [] endpoint = "/send/sol" ->
             [from |-> "string", to |-> "string", lamports |-> "u64"]
      [] endpoint = "/send/token" ->
             [destination |-> "string", mint |-> "string",
              owner |-> "string", amount |-> "u64"]

DeField(v, type) ==
    IF type = "string" THEN DeOptString(v)
    ELSE IF type = "u8" THEN DeOptUnsigned(v, Small(U8_MAX))
    ELSE DeOptUnsigned(v, U64_MAX)

\* axum's Json<T> extractor: the payload the handler receives. A body that
\* is not JSON (or not sent as JSON), or one with a member of the wrong
\* type, is a JsonRejection.
JsonPayload(endpoint, body) ==
    LET types == StructFields(endpoint)
    IN  IF ~body.json THEN Err
        ELSE IF \E f \in DOMAIN types : ~DeField(body.fields[f], types[f]).ok
             THEN Err
        ELSE Ok([f \in DOMAIN types |-> DeField(body.fields[f], types[f]).v])

(***************************************************************************)
(* Response envelopes                                                      *)
(***************************************************************************)
NoData == <<>>

BAD_REQUEST == 400

StatusOk == 200

SuccessResponse(data) ==
    [status |-> StatusOk, success |-> TRUE, error |-> "", data |-> data]

ErrorResponse(status, error) ==
    [status |-> status, success |-> FALSE, error |-> error, data |-> NoData]

\* A plausible slip: the rejection keeps axum's own status for a body that
\* does not deserialize.
extract_json_unprocessable(payload) ==
    IF payload.ok THEN payload
    ELSE [ok |-> FALSE,
          v  |-> ErrorResponse(422, "Missing required fields")]

\* extract_json: the deserialized request, or the 400 response.
extract_json(payload) ==
    IF payload.ok THEN payload
    ELSE [ok |-> FALSE,
          v  |-> ErrorResponse(BAD_REQUEST, "Missing required fields")]

(***************************************************************************)
(* The SDK, as the handlers use it.                                        *)
(*                                                                         *)
(* Keys, signatures and instruction data are byte strings of their real    *)
(* sizes and the codecs above are the real ones. Curve arithmetic and      *)
(* SHA-512 are replaced by byte-wise maps that keep what the handlers      *)
(* depend on: a public key is a function of the seed, only some 32-byte    *)
(* strings are curve points, and a signature verifies exactly when it was  *)
(* made over the same message bytes by the key pair of that public key.    *)
(***************************************************************************)
PUBKEY_BYTES == 32

MAX_BASE58_LEN == 44

SECRET_KEY_LENGTH == 32

KEYPAIR_LENGTH == 64

SIGNATURE_BYTES == 64

\* Pubkey::from_str
PubkeyFromStr(s) ==
    IF ByteLen(s) > MAX_BASE58_LEN THEN Err
    ELSE LET d == Base58Decode(s)
         IN  IF ~d.ok THEN Err
             ELSE IF Len(d.v) # PUBKEY_BYTES THEN Err
             ELSE d

\* Pubkey::to_string
PubkeyToString(k) == Base58Encode(k)

\* Whether 32 bytes decompress to a curve point.
OnCurve(p) == p[PUBKEY_BYTES] % 2 = 0

\* The public key of a 32-byte seed.
PublicOf(seed) ==
    [i \in 1..PUBKEY_BYTES |->
        IF i = PUBKEY_BYTES THEN 2 * ((5 * seed[i] + 17) % 128)
        ELSE (5 * seed[i] + 17 + i) % 256]

\* Keypair::from_bytes as the SDK had it before it compared the two halves.
KeypairFromBytesUnchecked(bytes) ==
    IF Len(bytes) < KEYPAIR_LENGTH THEN Err
    ELSE LET secret == SubSeq(bytes, 1, SECRET_KEY_LENGTH)
             public == SubSeq(bytes, SECRET_KEY_LENGTH + 1, KEYPAIR_LENGTH)
         IN  IF ~OnCurve(public) THEN Err
             ELSE Ok([secret |-> secret, public |-> public])

\* Keypair::from_bytes: the public half must be a curve point and the
\* public key of the secret half.
KeypairFromBytes(bytes) ==
    IF Len(bytes) < KEYPAIR_LENGTH THEN Err
    ELSE LET secret == SubSeq(bytes, 1, SECRET_KEY_LENGTH)
             public == SubSeq(bytes, SECRET_KEY_LENGTH + 1, KEYPAIR_LENGTH)
         IN  IF ~OnCurve(public) THEN Err
             ELSE IF public # PublicOf(secret) THEN Err
             ELSE Ok([secret |-> secret, public |-> public])

\* Keypair::to_bytes
KeypairToBytes(keypair) == keypair.secret \o keypair.public

\* str::as_bytes: the UTF-8 encoding.
Utf8Char(c) ==
    IF c < 128 THEN <<c>>
    ELSE IF c < 2048 THEN <<192 + (c \div 64), 128 + (c % 64)>>
    ELSE IF c < 65536
         THEN <<224 + (c \div 4096), 128 + ((c \div 64) % 64), 128 + (c % 64)>>
    ELSE <<240 + (c \div 262144), 128 + ((c \div 4096) % 64),
           128 + ((c \div 64) % 64), 128 + (c % 64)>>

RECURSIVE AsBytesRange(_, _, _)
AsBytesRange(s, lo, hi) ==
    IF lo > hi THEN <<>>
    ELSE IF lo = hi THEN Utf8Char(s[lo])
    ELSE LET mid == (lo + hi) \div 2
         IN  AsBytesRange(s, lo, mid) \o AsBytesRange(s, mid + 1, hi)

AsBytes(s) == AsBytesRange(s, 1, Len(s))

\* The 32-byte digest that stands for the hash of the message bytes.
RECURSIVE StrideSum(_, _)
StrideSum(b, j) ==
    IF j > Len(b) THEN 0
    ELSE b[j] * ((j \div PUBKEY_BYTES) + 1) + StrideSum(b, j + PUBKEY_BYTES)

Digest(b) == [i \in 1..PUBKEY_BYTES |-> (Len(b) + StrideSum(b, i)) % 256]

\* Keypair::sign_message: the first half depends on the secret scalar, the
\* second on the public half the key pair carries, both on the message.
SignMessage(keypair, message_bytes) ==
    LET h == Digest(message_bytes)
        a == PublicOf(keypair.secret)
    IN  [i \in 1..SIGNATURE_BYTES |->
            IF i <= PUBKEY_BYTES THEN (a[i] + h[i]) % 256
            ELSE (keypair.public[i - PUBKEY_BYTES] + 2 * h[i - PUBKEY_BYTES] + i) % 256]

\* Signature::verify(pubkey_bytes, message_bytes)
SignatureVerify(signature, pubkey_bytes, message_bytes) ==
    /\ OnCurve(pubkey_bytes)
    /\ LET h == Digest(message_bytes)
       IN  \A i \in 1..PUBKEY_BYTES :
               /\ signature[i] = (pubkey_bytes[i] + h[i]) % 256
               /\ signature[i + PUBKEY_BYTES]
                     = (pubkey_bytes[i] + 2 * h[i] + i + PUBKEY_BYTES) % 256

\* spl_token::id(): TokenkegQfeZyiNwAJbNbGKPFXCWuBvf9Ss623VQ5DA
SplTokenId ==
    <<6, 221, 246, 225, 215, 101, 161, 147, 217, 203, 225, 70, 206, 235,
      121, 172, 28, 180, 133, 237, 95, 91, 55, 145, 58, 140, 245, 133, 126,
      255, 0, 169>>

\* sysvar::rent::id(): SysvarRent111111111111111111111111111111111
SysvarRentId ==
    <<6, 167, 213, 23, 25, 44, 92, 81, 33, 140, 201, 76, 61, 74, 241, 127,
      88, 218, 238, 8, 155, 161, 253, 68, 227, 219, 217, 138, 0, 0, 0, 0>>

\* system_program::id(): 11111111111111111111111111111111
SystemProgramId == Repeat(0, PUBKEY_BYTES)

AccountMeta(pubkey, is_signer, is_writable) ==
    [pubkey |-> pubkey, is_signer |-> is_signer, is_writable |-> is_writable]

\* spl_token::instruction::initialize_mint with no freeze authority
initialize_mint(token_program_id, mint, mint_authority, decimals) ==
    IF token_program_id # SplTokenId THEN Err
    ELSE Ok([program_id |-> token_program_id,
             accounts   |-> <<AccountMeta(mint, FALSE, TRUE),
                              AccountMeta(SysvarRentId, FALSE, FALSE)>>,
             data       |-> <<0, decimals>> \o mint_authority \o <<0>>])

\* spl_token::instruction::mint_to with no multisig signers
mint_to(token_program_id, mint, account, owner, amount) ==
    IF token_program_id # SplTokenId THEN Err
    ELSE Ok([program_id |-> token_program_id,
             accounts   |-> <<AccountMeta(mint, FALSE, TRUE),
                              AccountMeta(account, FALSE, TRUE),
                              AccountMeta(owner, TRUE, FALSE)>>,
             data       |-> <<7>> \o U64ToLeBytes(amount)])

\* system_instruction::transfer
system_transfer(from_pubkey, to_pubkey, lamports) ==
    [program_id |-> SystemProgramId,
     accounts   |-> <<AccountMeta(from_pubkey, TRUE, TRUE),
                      AccountMeta(to_pubkey, FALSE, TRUE)>>,
     data       |-> <<2, 0, 0, 0>> \o U64ToLeBytes(lamports)]

(***************************************************************************)
(* Validators                                                              *)
(***************************************************************************)
is_valid_base58(s) == Trim(s) # <<>> /\ Base58Decode(s).ok

is_valid_base64(s) == Trim(s) # <<>> /\ Base64Decode(s).ok

is_valid_pubkey(s) == Trim(s) # <<>> /\ PubkeyFromStr(s).ok

(***************************************************************************)
(* Handlers. Each is split where the code is: the checks, which end either *)
(* in an error response or in the values the SDK call needs, and the SDK   *)
(* call with the formatting of its result.                                 *)
(***************************************************************************)
Reject(error) == [ok |-> FALSE, v |-> ErrorResponse(BAD_REQUEST, error)]

\* The value of a u8 held in limbs.
U8Value(n) == n[5]

ResponseForAccountMeta(acc) ==
    [pubkey      |-> PubkeyToString(acc.pubkey),
     is_signer   |-> acc.is_signer,
     is_writable |-> acc.is_writable]

ResponseForInstruction(instruction) ==
    [program_id       |-> PubkeyToString(instruction.program_id),
     accounts         |-> [i \in 1..Len(instruction.accounts) |->
                              ResponseForAccountMeta(instruction.accounts[i])],
     instruction_data |-> Base64Encode(instruction.data)]

SolTransferResponse(instruction) ==
    [program_id       |-> PubkeyToString(instruction.program_id),
     accounts         |-> [i \in 1..Len(instruction.accounts) |->
                              PubkeyToString(instruction.accounts[i].pubkey)],
     instruction_data |-> Base64Encode(instruction.data)]

\* ---- /keypair ----
generate_keypair(seed) ==
    LET keypair == [secret |-> seed, public |-> PublicOf(seed)]
    IN  SuccessResponse([pubkey |-> PubkeyToString(keypair.public),
                         secret |-> Base58Encode(KeypairToBytes(keypair))])

\* ---- /token/create ----
\* A plausible slip: the bound is off by one.
decimals_out_of_range_off_by_one(decimals) == decimals > MaxDecimals + 1

decimals_out_of_range(decimals) == decimals > MaxDecimals

create_token_validate(r) ==
    IF ~r.mintAuthority.some THEN Reject("Missing required fields")
    ELSE IF ~r.mint.some THEN Reject("Missing required fields")
    ELSE IF ~r.decimals.some THEN Reject("Missing required fields")
    ELSE LET mint_authority_str == r.mintAuthority.s
             mint_str           == r.mint.s
             decimals           == U8Value(r.decimals.n)
             mint_authority     == PubkeyFromStr(mint_authority_str)
             mint               == PubkeyFromStr(mint_str)
         IN  IF is_suspicious_text(mint_authority_str) \/ is_suspicious_text(mint_str)
             THEN Reject("Missing required fields")
             ELSE IF decimals_out_of_range(decimals)
             THEN Reject("Invalid decimals value")
             ELSE IF ~is_valid_pubkey(mint_authority_str)
             THEN Reject("Invalid mint authority")
             ELSE IF ~is_valid_pubkey(mint_str)
             THEN Reject("Invalid mint address")
             ELSE IF ~mint_authority.ok THEN Reject("Invalid mint authority")
             ELSE IF ~mint.ok THEN Reject("Invalid mint address")
             ELSE Ok([mint_authority |-> mint_authority.v, mint |-> mint.v,
                      decimals |-> decimals])

create_token_invoke(l) ==
    LET instruction == initialize_mint(SplTokenId, l.mint, l.mint_authority, l.decimals)
    IN  IF ~instruction.ok
        THEN ErrorResponse(BAD_REQUEST, "Failed to create instruction")
        ELSE SuccessResponse(ResponseForInstruction(instruction.v))

\* ---- /token/mint ----
\* A plausible slip: the ceiling is u64::MAX rather than half of it.
mint_amount_check_full_range(amount) ==
    IF amount = LimbsZero THEN "Amount must be greater than 0"
    ELSE IF LimbsLess(U64_MAX, amount) THEN "Amount too large"
    ELSE ""

\* The two checks of the amount: the error, or "" when it passes.
mint_amount_check(amount) ==
    IF amount = LimbsZero THEN "Amount must be greater than 0"
    ELSE IF LimbsLess(U64_MAX_HALF, amount) THEN "Amount too large"
    ELSE ""

\* A plausible slip: the amount is checked before the public keys.
mint_token_validate_amount_first(r) ==
    IF ~r.mint.some THEN Reject("Missing required fields")
    ELSE IF ~r.destination.some THEN Reject("Missing required fields")
    ELSE IF ~r.authority.some THEN Reject("Missing required fields")
    ELSE IF ~r.amount.some THEN Reject("Missing required fields")
    ELSE LET mint_str        == r.mint.s
             destination_str == r.destination.s
             authority_str   == r.authority.s
             amount          == r.amount.n
             mint            == PubkeyFromStr(mint_str)
             destination     == PubkeyFromStr(destination_str)
             authority       == PubkeyFromStr(authority_str)
         IN  IF \/ is_suspicious_text(mint_str)
                \/ is_suspicious_text(destination_str)
                \/ is_suspicious_text(authority_str)
             THEN Reject("Missing required fields")
             ELSE IF mint_amount_check(amount) # ""
             THEN Reject(mint_amount_check(amount))
             ELSE IF ~is_valid_pubkey(mint_str) \/ ~mint.ok
             THEN Reject("Mai error hun :) -- (Mint in endpoint 3)")
             ELSE IF ~is_valid_pubkey(destination_str) \/ ~destination.ok
             THEN Reject("Error from destination in endpoint 3")
             ELSE IF ~is_valid_pubkey(authority_str) \/ ~authority.ok
             THEN Reject("Error from authority in endpoint 3")
             ELSE Ok([mint |-> mint.v, destination |-> destination.v,
                      authority |-> authority.v, amount |-> amount])

mint_token_validate(r) ==
    IF ~r.mint.some THEN Reject("Missing required fields")
    ELSE IF ~r.destination.some THEN Reject("Missing required fields")
    ELSE IF ~r.authority.some THEN Reject("Missing required fields")
    ELSE IF ~r.amount.some THEN Reject("Missing required fields")
    ELSE LET mint_str        == r.mint.s
             destination_str == r.destination.s
             authority_str   == r.authority.s
             amount          == r.amount.n
             mint            == PubkeyFromStr(mint_str)
             destination     == PubkeyFromStr(destination_str)
             authority       == PubkeyFromStr(authority_str)
         IN  IF \/ is_suspicious_text(mint_str)
                \/ is_suspicious_text(destination_str)
                \/ is_suspicious_text(authority_str)
             THEN Reject("Missing required fields")
             ELSE IF ~is_valid_pubkey(mint_str)
             THEN Reject("Mai error hun :) -- (Mint in endpoint 3)")
             ELSE IF ~is_valid_pubkey(destination_str)
             THEN Reject("Error from destination in endpoint 3")
             ELSE IF ~is_valid_pubkey(authority_str)
             THEN Reject("Error from authority in endpoint 3")
             ELSE IF ~mint.ok
             THEN Reject("Mai error hun :) -- (Mint in endpoint 3)")
             ELSE IF ~destination.ok
             THEN Reject("Error from destination in endpoint 3")
             ELSE IF ~authority.ok
             THEN Reject("Error from authority in endpoint 3")
             ELSE IF mint_amount_check(amount) # ""
             THEN Reject(mint_amount_check(amount))
             ELSE Ok([mint |-> mint.v, destination |-> destination.v,
                      authority |-> authority.v, amount |-> amount])

mint_token_invoke(l) ==
    LET instruction == mint_to(SplTokenId, l.mint, l.destination, l.authority, l.amount)
    IN  IF ~instruction.ok
        THEN ErrorResponse(BAD_REQUEST,
                 "instruction failure in endpoint3, check krrr bhai.. jsldiiii")
        ELSE SuccessResponse(ResponseForInstruction(instruction.v))

\* ---- /message/sign ----
sign_message_validate(r) ==
    IF ~r.message.some THEN Reject("Missing required fields")
    ELSE IF ~r.secret.some THEN Reject("Missing required fields")
    ELSE LET message      == r.message.s
             secret       == r.secret.s
             secret_bytes == Base58Decode(secret)
         IN  IF is_suspicious_text(message) \/ is_suspicious_text(secret)
             THEN Reject("Missing required fields")
             ELSE IF ~is_valid_base58(secret) THEN Reject("key format theek karo")
             ELSE IF ~secret_bytes.ok THEN Reject("key format theek karo")
             ELSE IF Len(secret_bytes.v) # KEYPAIR_LENGTH
             THEN Reject("Invalid secret key")
             ELSE IF ~KeypairFromBytes(secret_bytes.v).ok
             THEN Reject("Invalid secret key")
             ELSE Ok([message |-> message,
                      keypair |-> KeypairFromBytes(secret_bytes.v).v])

sign_message_invoke(l) ==
    LET message_bytes == AsBytes(l.message)
        signature     == SignMessage(l.keypair, message_bytes)
    IN  SuccessResponse([signature  |-> Base64Encode(signature),
                         public_key |-> PubkeyToString(l.keypair.public),
                         message    |-> l.message])

\* ---- /message/verify ----
verify_message_validate(r) ==
    IF ~r.message.some THEN Reject("Missing required fields")
    ELSE IF ~r.signature.some THEN Reject("Missing required fields")
    ELSE IF ~r.pubkey.some THEN Reject("Missing required fields")
    ELSE LET message         == r.message.s
             signature_str   == r.signature.s
             pubkey_str      == r.pubkey.s
             pubkey          == PubkeyFromStr(pubkey_str)
             signature_bytes == Base64Decode(signature_str)
         IN  IF \/ is_suspicious_text(message)
                \/ is_suspicious_text(signature_str)
                \/ is_suspicious_text(pubkey_str)
             THEN Reject("Missing required fields")
             ELSE IF ~is_valid_pubkey(pubkey_str) THEN Reject("Invalid public key")
             ELSE IF ~is_valid_base64(signature_str)
             THEN Reject("Invalid signature format")
             ELSE IF ~pubkey.ok THEN Reject("Invalid public key")
             ELSE IF ~signature_bytes.ok THEN Reject("Invalid signature format")
             ELSE IF Len(signature_bytes.v) # SIGNATURE_BYTES
             THEN Reject("Invalid signature")
             ELSE Ok([message |-> message, pubkey_str |-> pubkey_str,
                      pubkey |-> pubkey.v, signature |-> signature_bytes.v])

\* A plausible slip: a signature that does not verify is reported as an
\* error instead of valid:false.
verify_message_invoke_strict(l) ==
    IF SignatureVerify(l.signature, l.pubkey, AsBytes(l.message))
    THEN SuccessResponse([valid |-> TRUE, message |-> l.message,
                          pubkey |-> l.pubkey_str])
    ELSE ErrorResponse(BAD_REQUEST, "Invalid signature")

verify_message_invoke(l) ==
    LET message_bytes == AsBytes(l.message)
        is_valid      == SignatureVerify(l.signature, l.pubkey, message_bytes)
    IN  SuccessResponse([valid |-> is_valid, message |-> l.message,
                         pubkey |-> l.pubkey_str])

\* ---- /send/sol ----
\* The two checks of the lamports: the error, or "" when they pass.
lamports_check(lamports) ==
    IF lamports = LimbsZero THEN "Amount must be greater than 0"
    ELSE IF LimbsLess(MaxLamports, lamports) THEN "Amount too large"
    ELSE ""

\* A plausible slip: the check is left out.
same_address_unchecked(from_pubkey, to_pubkey) == FALSE

same_address(from_pubkey, to_pubkey) == from_pubkey = to_pubkey

send_sol_validate(r) ==
    IF ~r.from.some THEN Reject("Missing required fields")
    ELSE IF ~r.to.some THEN Reject("Missing required fields")
    ELSE IF ~r.lamports.some THEN Reject("Missing required fields")
    ELSE LET from_str    == r.from.s
             to_str      == r.to.s
             lamports    == r.lamports.n
             from_pubkey == PubkeyFromStr(from_str)
             to_pubkey   == PubkeyFromStr(to_str)
         IN  IF is_suspicious_text(from_str) \/ is_suspicious_text(to_str)
             THEN Reject("Missing required fields")
             ELSE IF ~is_valid_pubkey(from_str) THEN Reject("Invalid from address")
             ELSE IF ~is_valid_pubkey(to_str) THEN Reject("Invalid to address")
             ELSE IF ~from_pubkey.ok THEN Reject("Invalid from address")
             ELSE IF ~to_pubkey.ok THEN Reject("Invalid to address")
             ELSE IF lamports_check(lamports) # ""
             THEN Reject(lamports_check(lamports))
             ELSE IF same_address(from_pubkey.v, to_pubkey.v)
             THEN Reject("Cannot send to same address")
             ELSE Ok([from_pubkey |-> from_pubkey.v, to_pubkey |-> to_pubkey.v,
                      lamports |-> lamports])

send_sol_invoke(l) ==
    LET instruction == system_transfer(l.from_pubkey, l.to_pubkey, l.lamports)
    IN  SuccessResponse(SolTransferResponse(instruction))

\* ---- /send/token ----
send_token_validate(r) == Reject("Token transfer endpoint not implemented")

(***************************************************************************)
(* The router and the life of a request on a connection                    *)
(***************************************************************************)
Endpoints ==
    {"/keypair", "/token/create", "/token/mint", "/message/sign",
     "/message/verify", "/send/sol", "/send/token"}

Validate(endpoint, r) ==
    CASE endpoint = "/token/create"   -> create_token_validate(r)
      [] endpoint = "/token/mint"     -> mint_token_validate(r)
      [] endpoint = "/message/sign"   -> sign_message_validate(r)
      [] endpoint = "/message/verify" -> verify_message_validate(r)
      [] endpoint = "/send/sol"       -> send_sol_validate(r)
      [] endpoint = "/send/token"     -> send_token_validate(r)

InvokeSdk(endpoint, l) ==
    CASE endpoint = "/token/create"   -> create_token_invoke(l)
      [] endpoint = "/token/mint"     -> mint_token_invoke(l)
      [] endpoint = "/message/sign"   -> sign_message_invoke(l)
      [] endpoint = "/message/verify" -> verify_message_invoke(l)
      [] endpoint = "/send/sol"       -> send_sol_invoke(l)

\* The response of a handler to a body, start to end.
Handle(endpoint, body) ==
    LET e == extract_json(JsonPayload(endpoint, body))
        v == Validate(endpoint, e.v)
    IN  IF ~e.ok THEN e.v
        ELSE IF ~v.ok THEN v.v
        ELSE InvokeSdk(endpoint, v.v)

NoBody == [json |-> FALSE, fields |-> <<>>]

NoRequest == [endpoint |-> "", body |-> NoBody]

NoLocal == <<>>

NoResponse == [status |-> 0, success |-> FALSE, error |-> "", data |-> NoData]

\* A plausible slip: the handler works on a buffer shared by the
\* connections, which the request accepted last has overwritten.
handler_input_shared(c) == req[SetMax({d \in DOMAIN req : pc[d] # "idle"})]

\* The payload a handler is called with: the body of its own request.
handler_input(c) == req[c]

\* The server accepts a request.
Receive(c, endpoint, body) ==
    /\ pc[c] = "idle"
    /\ req' = [req EXCEPT ![c] = [endpoint |-> endpoint, body |-> body]]
    /\ pc' = [pc EXCEPT ![c] = IF endpoint = "/keypair" THEN "keygen" ELSE "extract"]
    /\ UNCHANGED <<resp, local, chained, sdkCalls, responses>>

\* let req = extract_json(payload).await?;
Extract(c) ==
    /\ pc[c] = "extract"
    /\ LET payload == handler_input(c)
           e       == extract_json(JsonPayload(payload.endpoint, payload.body))
       IN  IF e.ok
           THEN /\ local' = [local EXCEPT ![c] = e.v]
                /\ pc' = [pc EXCEPT ![c] = "validate"]
                /\ UNCHANGED <<resp, responses>>
           ELSE /\ resp' = [resp EXCEPT ![c] = e.v]
                /\ responses' = [responses EXCEPT ![c] = @ + 1]
                /\ pc' = [pc EXCEPT ![c] = "done"]
                /\ UNCHANGED local
    /\ UNCHANGED <<req, chained, sdkCalls>>

\* A plausible slip: the handler builds the instruction or the signature
\* first and looks at its input afterwards.
Check_after_sdk_call(c) ==
    /\ pc[c] = "validate"
    /\ LET v == Validate(req[c].endpoint, local[c])
       IN  IF v.ok
           THEN /\ local' = [local EXCEPT ![c] = v.v]
                /\ pc' = [pc EXCEPT ![c] = "sdk"]
                /\ sdkCalls' = sdkCalls
                /\ UNCHANGED <<resp, responses>>
           ELSE /\ resp' = [resp EXCEPT ![c] = v.v]
                /\ responses' = [responses EXCEPT ![c] = @ + 1]
                /\ pc' = [pc EXCEPT ![c] = "done"]
                /\ sdkCalls' = [sdkCalls EXCEPT ![c] = @ + 1]
                /\ UNCHANGED local
    /\ UNCHANGED <<req, chained>>

\* The checks of the handler, in the order of the code.
Check(c) ==
    /\ pc[c] = "validate"
    /\ LET v == Validate(req[c].endpoint, local[c])
       IN  IF v.ok
           THEN /\ local' = [local EXCEPT ![c] = v.v]
                /\ pc' = [pc EXCEPT ![c] = "sdk"]
                /\ UNCHANGED <<resp, responses>>
           ELSE /\ resp' = [resp EXCEPT ![c] = v.v]
                /\ responses' = [responses EXCEPT ![c] = @ + 1]
                /\ pc' = [pc EXCEPT ![c] = "done"]
                /\ UNCHANGED local
    /\ UNCHANGED <<req, chained, sdkCalls>>

\* The SDK call and the response built from its result.
Invoke(c) ==
    /\ pc[c] = "sdk"
    /\ resp' = [resp EXCEPT ![c] = InvokeSdk(req[c].endpoint, local[c])]
    /\ sdkCalls' = [sdkCalls EXCEPT ![c] = @ + 1]
    /\ responses' = [responses EXCEPT ![c] = @ + 1]
    /\ pc' = [pc EXCEPT ![c] = "done"]
    /\ UNCHANGED <<req, local, chained>>

\* /keypair: Keypair::new() draws the seed from the system's randomness.
Keygen(c, seed) ==
    /\ pc[c] = "keygen"
    /\ resp' = [resp EXCEPT ![c] = generate_keypair(seed)]
    /\ sdkCalls' = [sdkCalls EXCEPT ![c] = @ + 1]
    /\ responses' = [responses EXCEPT ![c] = @ + 1]
    /\ pc' = [pc EXCEPT ![c] = "done"]
    /\ UNCHANGED <<req, local, chained>>

\* The /message/verify body a client builds from a /message/sign response.
VerifyBodyOf(data) ==
    [json   |-> TRUE,
     fields |-> [message   |-> JStr(data.message),
                 signature |-> JStr(data.signature),
                 pubkey    |-> JStr(data.public_key)]]

\* The client that got a signature sends it back to be verified.
VerifyAfterSign(c) ==
    /\ pc[c] = "done"
    /\ req[c].endpoint = "/message/sign"
    /\ resp[c].success
    /\ req' = [req EXCEPT ![c] = [endpoint |-> "/message/verify",
                                  body |-> VerifyBodyOf(resp[c].data)]]
    /\ pc' = [pc EXCEPT ![c] = "extract"]
    /\ chained' = [chained EXCEPT ![c] = TRUE]
    /\ resp' = [resp EXCEPT ![c] = NoResponse]
    /\ local' = [local EXCEPT ![c] = NoLocal]
    /\ sdkCalls' = [sdkCalls EXCEPT ![c] = 0]
    /\ responses' = [responses EXCEPT ![c] = 0]

\* The response has been sent; the connection is free again.
Finish(c) ==
    /\ pc[c] = "done"
    /\ pc' = [pc EXCEPT ![c] = "idle"]
    /\ req' = [req EXCEPT ![c] = NoRequest]
    /\ resp' = [resp EXCEPT ![c] = NoResponse]
    /\ local' = [local EXCEPT ![c] = NoLocal]
    /\ chained' = [chained EXCEPT ![c] = FALSE]
    /\ sdkCalls' = [sdkCalls EXCEPT ![c] = 0]
    /\ responses' = [responses EXCEPT ![c] = 0]

(***************************************************************************)
(* The requests the model sends                                            *)
(***************************************************************************)
SeedA == [i \in 1..SECRET_KEY_LENGTH |-> i]

SeedB == [i \in 1..SECRET_KEY_LENGTH |-> (7 * i + 3) % 256]

\* The seeds Keypair::new() may draw.
Seeds == {SeedA, SeedB}

\* The address of the key pair of SeedA: 2ZE9V3GFypWWaRfZDhg8ai1vouPJfFbWpRFYV1ZYfyah
PubkeyA ==
    <<50, 90, 69, 57, 86, 51, 71, 70, 121, 112, 87, 87, 97, 82, 102, 90, 68,
      104, 103, 56, 97, 105, 49, 118, 111, 117, 80, 74, 102, 70, 98, 87,
      112, 82, 70, 89, 86, 49, 90, 89, 102, 121, 97, 104>>

\* The address of the key pair of SeedB: 5c3Bt9yqMApUVfnZyLs33wbnccAg4Dux91b8fVb1GJv3
PubkeyB ==
    <<53, 99, 51, 66, 116, 57, 121, 113, 77, 65, 112, 85, 86, 102, 110, 90,
      121, 76, 115, 51, 51, 119, 98, 110, 99, 99, 65, 103, 52, 68, 117, 120,
      57, 49, 98, 56, 102, 86, 98, 49, 71, 74, 118, 51>>

\* 32 bytes that are no curve point, a well-formed address all the same: 7ppk9w8NHnH6ehajvJyU31VcMafwZ3ybRtJWumSyD2uN
PubkeyOffCurve ==
    <<55, 112, 112, 107, 57, 119, 56, 78, 72, 110, 72, 54, 101, 104, 97,
      106, 118, 74, 121, 85, 51, 49, 86, 99, 77, 97, 102, 119, 90, 51, 121,
      98, 82, 116, 74, 87, 117, 109, 83, 121, 68, 50, 117, 78>>

\* Malformed public keys: a character outside the alphabet, too few bytes,
\* surrounding blanks, more than 44 characters.
KeyNotBase58 == <<110, 111, 116, 45, 97, 45, 107, 101, 121, 33>> \* not-a-key!

KeyShort == <<97, 98, 99>>                                       \* abc

KeyPadded == <<32>> \o PubkeyA \o <<32>>

KeyLong == PubkeyA \o PubkeyA

\* Malformed and suspicious at once.
KeyEmpty == <<>>

KeyTraversal == <<46, 46, 47, 101, 116, 99, 47, 112, 97, 115, 115, 119, 100>> \* ../etc/passwd

\* The 64 bytes of the key pair of SeedA: 2Ana1pUpv2ZbMVkwF5FXapYeBEjdxDatLn7nvJkhgTSWvkaD2n9MGYuWUd3p6ZsTdQgEC8xrobreHouTqauXKdb
SecretA ==
    <<50, 65, 110, 97, 49, 112, 85, 112, 118, 50, 90, 98, 77, 86, 107, 119,
      70, 53, 70, 88, 97, 112, 89, 101, 66, 69, 106, 100, 120, 68, 97, 116,
      76, 110, 55, 110, 118, 74, 107, 104, 103, 84, 83, 87, 118, 107, 97,
      68, 50, 110, 57, 77, 71, 89, 117, 87, 85, 100, 51, 112, 54, 90, 115,
      84, 100, 81, 103, 69, 67, 56, 120, 114, 111, 98, 114, 101, 72, 111,
      117, 84, 113, 97, 117, 88, 75, 100, 98>>

\* The 64 bytes of the key pair of SeedB: Cg4cuMfTbA2nRpzJkbkbxWFV644nZEzyHXNPkHhF9VEipwvqBsemNWSQ9wYzHFhX1TqPRHb6DTdoxbebrnznuSF
SecretB ==
    <<67, 103, 52, 99, 117, 77, 102, 84, 98, 65, 50, 110, 82, 112, 122, 74,
      107, 98, 107, 98, 120, 87, 70, 86, 54, 52, 52, 110, 90, 69, 122, 121,
      72, 88, 78, 80, 107, 72, 104, 70, 57, 86, 69, 105, 112, 119, 118, 113,
      66, 115, 101, 109, 78, 87, 83, 81, 57, 119, 89, 122, 72, 70, 104, 88,
      49, 84, 113, 80, 82, 72, 98, 54, 68, 84, 100, 111, 120, 98, 101, 98,
      114, 110, 122, 110, 117, 83, 70>>

\* SeedA and the public key of SeedB: 2Ana1pUpv2ZbMVkwF5FXapYeBEjdxDatLn7nvJkhgTSZyZcc9ViicrsRik4ZjkmvrzY2tvLFmvHxt9VeKcN7exw
SecretMismatched ==
    <<50, 65, 110, 97, 49, 112, 85, 112, 118, 50, 90, 98, 77, 86, 107, 119,
      70, 53, 70, 88, 97, 112, 89, 101, 66, 69, 106, 100, 120, 68, 97, 116,
      76, 110, 55, 110, 118, 74, 107, 104, 103, 84, 83, 90, 121, 90, 99, 99,
      57, 86, 105, 105, 99, 114, 115, 82, 105, 107, 52, 90, 106, 107, 109,
      118, 114, 122, 89, 50, 116, 118, 76, 70, 109, 118, 72, 120, 116, 57,
      86, 101, 75, 99, 78, 55, 101, 120, 119>>

\* SeedA and 32 bytes that are no curve point: 2Ana1pUpv2ZbMVkwF5FXapYeBEjdxDatLn7nvJkhgTSVSTcZp5EXQcqdhXUtqFKpPi5MzPUQFKwNxDG4azRM4jJ
SecretOffCurve ==
    <<50, 65, 110, 97, 49, 112, 85, 112, 118, 50, 90, 98, 77, 86, 107, 119,
      70, 53, 70, 88, 97, 112, 89, 101, 66, 69, 106, 100, 120, 68, 97, 116,
      76, 110, 55, 110, 118, 74, 107, 104, 103, 84, 83, 86, 83, 84, 99, 90,
      112, 53, 69, 88, 81, 99, 113, 100, 104, 88, 85, 116, 113, 70, 75, 112,
      80, 105, 53, 77, 122, 80, 85, 81, 70, 75, 119, 78, 120, 68, 71, 52,
      97, 122, 82, 77, 52, 106, 74>>

\* 63 bytes: GMkH3brNXiNNs1tiFZHu4yZSRrzJwxi5wB9bHFtMinf3fRHmow14XLbmmsUtZNQFbN84tCJB75uQHyHxQzfb8
SecretShort ==
    <<71, 77, 107, 72, 51, 98, 114, 78, 88, 105, 78, 78, 115, 49, 116, 105,
      70, 90, 72, 117, 52, 121, 90, 83, 82, 114, 122, 74, 119, 120, 105, 53,
      119, 66, 57, 98, 72, 70, 116, 77, 105, 110, 102, 51, 102, 82, 72, 109,
      111, 119, 49, 52, 88, 76, 98, 109, 109, 115, 85, 116, 90, 78, 81, 70,
      98, 78, 56, 52, 116, 67, 74, 66, 55, 53, 117, 81, 72, 121, 72, 120,
      81, 122, 102, 98, 56>>

SecretNotBase58 == <<48, 79, 73, 108>>                           \* 0OIl

MsgHello == <<104, 101, 108, 108, 111, 32, 119, 111, 114, 108, 100>> \* hello world

MsgPadded == <<32, 32>> \o MsgHello \o <<10>>

MsgOther == <<104, 101, 108, 108, 111, 32, 87, 111, 114, 108, 100>>   \* hello World

MsgDropTable ==
    <<68, 82, 79, 80, 32, 84, 65, 66, 76, 69, 32, 117, 115, 101, 114, 115>> \* DROP TABLE users

MsgScript == <<60, 83, 99, 114, 105, 112, 116, 62, 120>>         \* <Script>x

MsgControl == <<112, 97, 121, 7, 108, 111, 97, 100>>             \* pay, BEL, load

MsgBlank == <<32, 9, 32>>

MsgAtLimit == Repeat(97, MaxTextLen)

MsgOverLimit == Repeat(97, MaxTextLen + 1)

\* 501 two-byte characters: 1002 bytes.
MsgOverLimitBytes == Repeat(233, MaxTextLen \div 2 + 1)

KeypairA == [secret |-> SeedA, public |-> PublicOf(SeedA)]

\* The signature of A over MsgHello: io2aoKlgvbvExMJkanB2fIKIjpSaoKassri+xMrQ1m0eHzQ7SLFmXWplXJuiqbC3vsXM09rh6O/2/QQLEhkguA==
SigHelloA ==
    <<105, 111, 50, 97, 111, 75, 108, 103, 118, 98, 118, 69, 120, 77, 74,
      107, 97, 110, 66, 50, 102, 73, 75, 73, 106, 112, 83, 97, 111, 75, 97,
      115, 115, 114, 105, 43, 120, 77, 114, 81, 49, 109, 48, 101, 72, 122,
      81, 55, 83, 76, 70, 109, 88, 87, 112, 108, 88, 74, 117, 105, 113, 98,
      67, 51, 118, 115, 88, 77, 48, 57, 114, 104, 54, 79, 47, 50, 47, 81,
      81, 76, 69, 104, 107, 103, 117, 65, 61, 61>>

\* 64 bytes that are nobody's signature: BwcHBwcHBwcHBwcHBwcHBwcHBwcHBwcHBwcHBwcHBwcHBwcHBwcHBwcHBwcHBwcHBwcHBwcHBwcHBwcHBwcHBw==
SigGarbage ==
    <<66, 119, 99, 72, 66, 119, 99, 72, 66, 119, 99, 72, 66, 119, 99, 72,
      66, 119, 99, 72, 66, 119, 99, 72, 66, 119, 99, 72, 66, 119, 99, 72,
      66, 119, 99, 72, 66, 119, 99, 72, 66, 119, 99, 72, 66, 119, 99, 72,
      66, 119, 99, 72, 66, 119, 99, 72, 66, 119, 99, 72, 66, 119, 99, 72,
      66, 119, 99, 72, 66, 119, 99, 72, 66, 119, 99, 72, 66, 119, 99, 72,
      66, 119, 99, 72, 66, 119, 61, 61>>

\* 63 bytes: BwcHBwcHBwcHBwcHBwcHBwcHBwcHBwcHBwcHBwcHBwcHBwcHBwcHBwcHBwcHBwcHBwcHBwcHBwcHBwcHBwcH
SigShort ==
    <<66, 119, 99, 72, 66, 119, 99, 72, 66, 119, 99, 72, 66, 119, 99, 72,
      66, 119, 99, 72, 66, 119, 99, 72, 66, 119, 99, 72, 66, 119, 99, 72,
      66, 119, 99, 72, 66, 119, 99, 72, 66, 119, 99, 72, 66, 119, 99, 72,
      66, 119, 99, 72, 66, 119, 99, 72, 66, 119, 99, 72, 66, 119, 99, 72,
      66, 119, 99, 72, 66, 119, 99, 72, 66, 119, 99, 72, 66, 119, 99, 72,
      66, 119, 99, 72>>

SigNotBase64 == <<98, 97, 100, 42, 115, 105, 103, 61>>           \* bad*sig=

\* Base64 with non-zero trailing bits.
SigTrailingBits == <<81, 82, 61, 61>>                            \* QR==

\* The sample strings above are what the codecs and the key derivation give.
SamplesDerived ==
    /\ PubkeyA = PubkeyToString(PublicOf(SeedA))
    /\ PubkeyB = PubkeyToString(PublicOf(SeedB))
    /\ PubkeyOffCurve = PubkeyToString([i \in 1..PUBKEY_BYTES |-> IF i = PUBKEY_BYTES THEN 1 ELSE 100 + i])
    /\ SecretA = Base58Encode(SeedA \o PublicOf(SeedA))
    /\ SecretB = Base58Encode(SeedB \o PublicOf(SeedB))
    /\ SecretMismatched = Base58Encode(SeedA \o PublicOf(SeedB))
    /\ SecretOffCurve = Base58Encode(SeedA \o [i \in 1..PUBKEY_BYTES |-> IF i = PUBKEY_BYTES THEN 1 ELSE i])
    /\ SecretShort = Base58Encode(SubSeq(SeedA \o PublicOf(SeedA), 1, KEYPAIR_LENGTH - 1))
    /\ SigHelloA = Base64Encode(SignMessage(KeypairA, AsBytes(MsgHello)))
    /\ SigGarbage = Base64Encode(Repeat(7, SIGNATURE_BYTES))
    /\ SigShort = Base64Encode(Repeat(7, SIGNATURE_BYTES - 1))
    /\ SplTokenId = Base58Decode(<<84, 111, 107, 101, 110, 107, 101, 103, 81, 102, 101, 90, 121, 105, 78, 119, 65, 74, 98, 78, 98, 71, 75, 80, 70, 88, 67, 87, 117, 66, 118, 102, 57, 83, 115, 54, 50, 51, 86, 81, 53, 68, 65>>).v
    /\ SysvarRentId = Base58Decode(<<83, 121, 115, 118, 97, 114, 82, 101, 110, 116>> \o Repeat(49, 33)).v

One == Small(1)

\* u64::MAX / 2 + 1
U64_MAX_HALF_PLUS_1 == <<922, 3372, 368, 5477, 5808>>

\* u64::MAX + 1: no u64
U64_OVERFLOW == <<1844, 6744, 737, 955, 1616>>

MaxLamportsPlus1 == <<100, 0, 0, 0, 1>>

Body(fields) == [json |-> TRUE, fields |-> fields]

\* A body that is not JSON.
NotJson(endpoint) ==
    [json |-> FALSE, fields |-> [f \in DOMAIN StructFields(endpoint) |-> JAbsent]]

CreateBodies ==
    {Body([mintAuthority |-> a, mint |-> m, decimals |-> d]) :
        a \in {JStr(PubkeyA), JStr(KeyNotBase58), JStr(KeyTraversal), JAbsent},
        m \in {JStr(PubkeyB), JStr(KeyShort), JStr(KeyEmpty)},
        d \in {JNum(FALSE, Small(0)), JNum(FALSE, Small(MaxDecimals)),
               JNum(FALSE, Small(MaxDecimals + 1)), JNum(FALSE, Small(U8_MAX)),
               JNum(FALSE, Small(U8_MAX + 1)), JAbsent}}

MintBodies ==
    {Body([mint |-> m, destination |-> d, authority |-> a, amount |-> n]) :
        m \in {JStr(PubkeyA), JStr(KeyNotBase58), JStr(KeyTraversal)},
        d \in {JStr(PubkeyB), JStr(KeyLong)},
        a \in {JStr(PubkeyA), JStr(KeyShort), JAbsent},
        n \in {JNum(FALSE, LimbsZero), JNum(FALSE, One), JNum(FALSE, U64_MAX_HALF),
               JNum(FALSE, U64_MAX_HALF_PLUS_1), JNum(FALSE, U64_MAX),
               JNum(FALSE, U64_OVERFLOW)}}

SignBodies ==
    {Body([message |-> JStr(m), secret |-> k]) :
        m \in {MsgHello, MsgPadded, MsgDropTable, MsgScript, MsgControl,
               MsgBlank, MsgAtLimit, MsgOverLimit, MsgOverLimitBytes},
        k \in {JStr(SecretA), JStr(SecretB), JStr(SecretMismatched),
               JStr(SecretOffCurve), JStr(SecretShort), JStr(SecretNotBase58),
               JAbsent}}

VerifyBodies ==
    {Body([message |-> JStr(m), signature |-> g, pubkey |-> k]) :
        m \in {MsgHello, MsgOther, MsgDropTable},
        g \in {JStr(SigHelloA), JStr(SigGarbage), JStr(SigShort),
               JStr(SigNotBase64), JStr(SigTrailingBits), JAbsent},
        k \in {JStr(PubkeyA), JStr(PubkeyB), JStr(PubkeyOffCurve),
               JStr(KeyPadded), JStr(KeyEmpty)}}

SendSolBodies ==
    {Body([from |-> f, to |-> t, lamports |-> n]) :
        f \in {JStr(PubkeyA), JStr(PubkeyB), JStr(KeyNotBase58), JStr(KeyEmpty)},
        t \in {JStr(PubkeyA), JStr(PubkeyOffCurve), JStr(KeyPadded), JNum(FALSE, One)},
        n \in {JNum(FALSE, LimbsZero), JNum(FALSE, One), JNum(FALSE, MaxLamports),
               JNum(FALSE, MaxLamportsPlus1), JNum(TRUE, One), JAbsent}}

SendTokenBodies ==
    {Body([destination |-> d, mint |-> JStr(PubkeyA), owner |-> JStr(PubkeyB),
           amount |-> n]) :
        d \in {JStr(PubkeyB), JStr(MsgDropTable), JAbsent, JNum(FALSE, One)},
        n \in {JNum(FALSE, One), JStr(MsgHello)}}

\* Every request of the model: the bodies above and, for each endpoint
\* that reads one, a body that is not JSON.
Requests ==
    {[endpoint |-> "/keypair", body |-> NoBody]}
    \cup {[endpoint |-> "/token/create", body |-> b] : b \in CreateBodies}
    \cup {[endpoint |-> "/token/mint", body |-> b] : b \in MintBodies}
    \cup {[endpoint |-> "/message/sign", body |-> b] : b \in SignBodies}
    \cup {[endpoint |-> "/message/verify", body |-> b] : b \in VerifyBodies}
    \cup {[endpoint |-> "/send/sol", body |-> b] : b \in SendSolBodies}
    \cup {[endpoint |-> "/send/token", body |-> b] : b \in SendTokenBodies}
    \cup {[endpoint |-> e, body |-> NotJson(e)] : e \in Endpoints \ {"/keypair"}}

\* The requests of the concurrent specification: one of each endpoint
\* that reads a body, ending at each of the three stages of a handler.
ConcurrentRequests ==
    {[endpoint |-> "/token/create",
      body |-> Body([mintAuthority |-> JStr(KeyShort), mint |-> JStr(KeyShort),
                     decimals |-> JNum(FALSE, Small(MaxDecimals + 1))])],
     [endpoint |-> "/token/mint",
      body |-> Body([mint |-> JStr(KeyShort), destination |-> JStr(KeyShort),
                     authority |-> JStr(KeyShort), amount |-> JNum(FALSE, One)])],
     [endpoint |-> "/message/sign",
      body |-> Body([message |-> JStr(MsgHello), secret |-> JStr(KeyShort)])],
     [endpoint |-> "/message/verify",
      body |-> Body([message |-> JStr(MsgOther), signature |-> JStr(SigHelloA),
                     pubkey |-> JStr(PubkeyA)])],
     [endpoint |-> "/send/sol", body |-> NotJson("/send/sol")],
     [endpoint |-> "/send/token",
      body |-> Body([destination |-> JStr(PubkeyB), mint |-> JStr(PubkeyA),
                     owner |-> JStr(PubkeyB), amount |-> JNum(FALSE, One)])]}

(***************************************************************************)
(* Specifications                                                          *)
(***************************************************************************)
\* Connections served at once in the concurrent specification.
NumConns == 2

InitOn(conns) ==
    /\ pc = [c \in conns |-> "idle"]
    /\ req = [c \in conns |-> NoRequest]
    /\ local = [c \in conns |-> NoLocal]
    /\ resp = [c \in conns |-> NoResponse]
    /\ chained = [c \in conns |-> FALSE]
    /\ sdkCalls = [c \in conns |-> 0]
    /\ responses = [c \in conns |-> 0]

\* One connection, every request of the model.
Init == InitOn({1})

Next ==
    \/ \E c \in DOMAIN pc : \E r \in Requests : Receive(c, r.endpoint, r.body)
    \/ \E c \in DOMAIN pc : Extract(c)
    \/ \E c \in DOMAIN pc : Check(c)
    \/ \E c \in DOMAIN pc : Invoke(c)
    \/ \E c \in DOMAIN pc : \E seed \in Seeds : Keygen(c, seed)
    \/ \E c \in DOMAIN pc : VerifyAfterSign(c)
    \/ \E c \in DOMAIN pc : Finish(c)

Spec == Init /\ [][Next]_vars

\* NumConns connections whose requests interleave step by step.
ConcInit == InitOn(1..NumConns)

ConcNext ==
    \/ \E c \in DOMAIN pc :
           \E r \in ConcurrentRequests : Receive(c, r.endpoint, r.body)
    \/ \E c \in DOMAIN pc : Extract(c)
    \/ \E c \in DOMAIN pc : Check(c)
    \/ \E c \in DOMAIN pc : Invoke(c)
    \/ \E c \in DOMAIN pc : Finish(c)

ConcSpec == ConcInit /\ [][ConcNext]_vars

(***************************************************************************)
(* Properties                                                              *)
(***************************************************************************)
Done(c) == pc[c] = "done"

Rejected(c) == resp[c].status = BAD_REQUEST /\ ~resp[c].success

Field(c, f) == req[c].body.fields[f]

\* The member f of the body of c is a JSON string.
IsText(c, f) == req[c].body.json /\ Field(c, f).t = "str"

\* The member f of the body of c is a JSON number that is no u64 or a u64
\* for which P holds.
IsNumber(c, f) == req[c].body.json /\ Field(c, f).t = "num" /\ ~Field(c, f).neg

\* Suspicious text, as the specification words it.
Suspicious(s) ==
    LET t == Trim(s)
    IN  \/ t = <<>>
        \/ ByteLen(t) > MaxTextLen
        \/ \E i \in 1..Len(t) : IsControl(t[i]) /\ t[i] \notin {9, 10, 13}
        \/ \E k \in 1..Len(suspicious_patterns) :
               Contains(ToLowercase(t), suspicious_patterns[k])

\* A string that is no public key.
Malformed(s) == ~PubkeyFromStr(s).ok

\* An error message that says "invalid", in either case of its first letter.
SaysInvalid(error) ==
    \E i \in 1..(Len(error) - 5) : SubSeq(error, i, i + 5) = "nvalid"

\* C1: a /message/verify request built from the response of a successful
\* /message/sign (same message, the signature and the public_key returned)
\* is answered with success and valid:true.
C1_SignVerifyRoundTrip ==
    \A c \in DOMAIN pc :
        (chained[c] /\ Done(c)) => (resp[c].success /\ resp[c].data.valid)

\* C1 witness: the round trip has been made for a message with blanks
\* around it, which the validator trims and the signer does not.
C1_Witness ==
    \E c \in DOMAIN pc :
        /\ chained[c] /\ Done(c)
        /\ resp[c].success /\ resp[c].data.valid
        /\ Field(c, "message").s = MsgPadded

\* The fields of each endpoint that hold a public key.
KeyFields(endpoint) ==
    CASE endpoint = "/token/create"   -> {"mintAuthority", "mint"}
      [] endpoint = "/token/mint"     -> {"mint", "destination", "authority"}
      [] endpoint = "/message/verify" -> {"pubkey"}
      [] endpoint = "/send/sol"       -> {"from", "to"}
      [] OTHER                        -> {}

\* The body of c deserializes, with every member present and no text
\* suspicious: whatever is wrong with it is found by a later check.
PassesFieldChecks(c) ==
    /\ JsonPayload(req[c].endpoint, req[c].body).ok
    /\ \A f \in DOMAIN req[c].body.fields :
           /\ Field(c, f).t # "absent"
           /\ Field(c, f).t = "str" => ~Suspicious(Field(c, f).s)

\* C2: a request whose only defect is a malformed public key is answered
\* with HTTP 400 and an error message containing "invalid", on every
\* endpoint that accepts a public key.
C2_MalformedKeySaysInvalid ==
    \A c \in DOMAIN pc :
        ( /\ Done(c)
          /\ req[c].endpoint \in {"/token/create", "/token/mint",
                                  "/message/verify", "/send/sol"}
          /\ PassesFieldChecks(c)
          /\ req[c].endpoint = "/token/create"
                => ~LimbsLess(Small(MaxDecimals), Field(c, "decimals").mag)
          /\ \E f \in KeyFields(req[c].endpoint) : Malformed(Field(c, f).s) )
        => (Rejected(c) /\ SaysInvalid(resp[c].error))

\* C3: /send/token answers every body, JSON or not, well typed or not, with
\* HTTP 400 and the error "Token transfer endpoint not implemented".
C3_SendTokenFixedError ==
    \A c \in DOMAIN pc :
        (Done(c) /\ req[c].endpoint = "/send/token")
        => ( /\ Rejected(c)
             /\ resp[c].error = "Token transfer endpoint not implemented" )

\* The amount member and the ceiling of the two endpoints that take one.
AmountField(endpoint) ==
    IF endpoint = "/token/mint" THEN "amount" ELSE "lamports"

AmountCeiling(endpoint) ==
    IF endpoint = "/token/mint" THEN U64_MAX_HALF ELSE MaxLamports

\* C4: on /token/mint and /send/sol a request whose amount is 0 or above
\* the ceiling of the endpoint is answered with HTTP 400, never with an
\* instruction.
C4_AmountOutOfRangeRejected ==
    \A c \in DOMAIN pc :
        ( /\ Done(c)
          /\ req[c].endpoint \in {"/token/mint", "/send/sol"}
          /\ IsNumber(c, AmountField(req[c].endpoint))
          /\ LET n == Field(c, AmountField(req[c].endpoint)).mag
             IN  n = LimbsZero \/ LimbsLess(AmountCeiling(req[c].endpoint), n) )
        => Rejected(c)

\* C4 witness: a /token/mint request with nothing wrong but an amount just
\* above the ceiling has been refused for it.
C4_Witness ==
    \E c \in DOMAIN pc :
        /\ Done(c) /\ req[c].endpoint = "/token/mint"
        /\ IsNumber(c, "amount") /\ Field(c, "amount").mag = U64_MAX_HALF_PLUS_1
        /\ Rejected(c) /\ resp[c].error = "Amount too large"

\* C5: /send/sol answers HTTP 400, never an instruction, when from and to
\* denote the same public key.
C5_SameAddressRejected ==
    \A c \in DOMAIN pc :
        ( /\ Done(c) /\ req[c].endpoint = "/send/sol"
          /\ IsText(c, "from") /\ IsText(c, "to")
          /\ PubkeyFromStr(Field(c, "from").s).ok
          /\ PubkeyFromStr(Field(c, "from").s) = PubkeyFromStr(Field(c, "to").s) )
        => Rejected(c)

\* C5 witness: a transfer of one lamport from an address to itself has been
\* refused for that reason.
C5_Witness ==
    \E c \in DOMAIN pc :
        /\ Done(c) /\ req[c].endpoint = "/send/sol"
        /\ IsText(c, "from") /\ Field(c, "from") = Field(c, "to")
        /\ Rejected(c) /\ resp[c].error = "Cannot send to same address"

\* C6: a request with a suspicious string in any string field of its
\* endpoint is answered with HTTP 400.
C6_SuspiciousTextRejected ==
    \A c \in DOMAIN pc :
        ( /\ Done(c) /\ req[c].endpoint # "/keypair" /\ req[c].body.json
          /\ \E f \in DOMAIN req[c].body.fields :
                 /\ StructFields(req[c].endpoint)[f] = "string"
                 /\ Field(c, f).t = "str"
                 /\ Suspicious(Field(c, f).s) )
        => Rejected(c)

\* C6 witness: a /message/sign request with a good key has been refused for
\* a message that holds a denylisted pattern in capitals.
C6_Witness ==
    \E c \in DOMAIN pc :
        /\ Done(c) /\ req[c].endpoint = "/message/sign"
        /\ IsText(c, "message") /\ Field(c, "message").s = MsgDropTable
        /\ IsText(c, "secret") /\ Field(c, "secret").s = SecretA
        /\ Rejected(c)

\* A /message/verify body with nothing malformed: three strings, none
\* suspicious, a public key that parses, a base64 signature of 64 bytes.
WellFormedVerify(c) ==
    /\ IsText(c, "message") /\ IsText(c, "signature") /\ IsText(c, "pubkey")
    /\ ~Suspicious(Field(c, "message").s)
    /\ ~Suspicious(Field(c, "signature").s)
    /\ ~Suspicious(Field(c, "pubkey").s)
    /\ ~Malformed(Field(c, "pubkey").s)
    /\ Base64Decode(Field(c, "signature").s).ok
    /\ Len(Base64Decode(Field(c, "signature").s).v) = SIGNATURE_BYTES

\* The signature of a well-formed /message/verify body is one over its
\* message by its public key.
SignatureMatches(c) ==
    SignatureVerify(Base64Decode(Field(c, "signature").s).v,
                    PubkeyFromStr(Field(c, "pubkey").s).v,
                    AsBytes(Field(c, "message").s))

\* C7: a well-formed /message/verify request is never answered with an
\* error: it gets a success, with valid:false when the signature does not
\* match the message and the public key.
C7_VerifyErrorsOnlyOnMalformed ==
    \A c \in DOMAIN pc :
        (Done(c) /\ req[c].endpoint = "/message/verify" /\ WellFormedVerify(c))
        => ( /\ resp[c].success
             /\ resp[c].status = StatusOk
             /\ ~SignatureMatches(c) => ~resp[c].data.valid )

\* C7 witness: a well-formed request with the signature of another message
\* has been answered valid:false.
C7_Witness ==
    \E c \in DOMAIN pc :
        /\ Done(c) /\ req[c].endpoint = "/message/verify" /\ WellFormedVerify(c)
        /\ Field(c, "signature").s = SigHelloA /\ Field(c, "message").s = MsgOther
        /\ resp[c].success /\ ~resp[c].data.valid

\* C8: a request gets exactly one response, no response before its handler
\* is done, and the response is a success envelope with a payload or an
\* error envelope with a message and status 400.
C8_OneEnvelopePerRequest ==
    \A c \in DOMAIN pc :
        /\ responses[c] = (IF Done(c) THEN 1 ELSE 0)
        /\ Done(c) =>
              \/ /\ resp[c].success /\ resp[c].status = StatusOk
                 /\ resp[c].data # NoData /\ resp[c].error = ""
              \/ /\ ~resp[c].success /\ resp[c].status = BAD_REQUEST
                 /\ resp[c].data = NoData /\ resp[c].error # ""

\* C8 witness: a body that is not JSON has been answered with the error
\* envelope.
C8_Witness ==
    \E c \in DOMAIN pc :
        /\ Done(c) /\ req[c].endpoint = "/token/create" /\ ~req[c].body.json
        /\ responses[c] = 1 /\ Rejected(c)

\* C9: whatever the other connections do meanwhile, the response of every
\* endpoint but /keypair is the handler's function of the request's own
\* body, so equal requests get equal responses.
C9_ResponseDependsOnBodyAlone ==
    /\ \A c \in DOMAIN pc :
           (Done(c) /\ req[c].endpoint # "/keypair")
           => resp[c] = Handle(req[c].endpoint, req[c].body)
    /\ \A c, d \in DOMAIN pc :
           (Done(c) /\ Done(d) /\ req[c] = req[d] /\ req[c].endpoint # "/keypair")
           => resp[c] = resp[d]

\* C9 witness: a handler has finished while another connection, accepted
\* after it with another request, is in the middle of its own.
C9_Witness ==
    \E c, d \in DOMAIN pc :
        /\ c < d /\ Done(c) /\ resp[c].success
        /\ pc[d] \in {"validate", "sdk"} /\ req[d] # req[c]

\* The decimals member of a /token/create body is a number above 9.
DecimalsAboveMax(c) ==
    /\ IsNumber(c, "decimals")
    /\ LimbsLess(Small(MaxDecimals), Field(c, "decimals").mag)

\* A /token/create answer with an instruction comes from decimals of at
\* most 9 and two well-formed public keys.
CreateOnlyWhenValid(c) ==
    resp[c].success =>
        /\ IsNumber(c, "decimals") /\ ~DecimalsAboveMax(c)
        /\ IsText(c, "mintAuthority") /\ ~Malformed(Field(c, "mintAuthority").s)
        /\ IsText(c, "mint") /\ ~Malformed(Field(c, "mint").s)

\* C10 as stated: every /token/create request with decimals above 9 is
\* answered with HTTP 400 and "Invalid decimals value".
C10_DecimalsAlwaysOutOfRangeError ==
    \A c \in DOMAIN pc :
        (Done(c) /\ req[c].endpoint = "/token/create")
        => /\ CreateOnlyWhenValid(c)
           /\ DecimalsAboveMax(c)
                 => (Rejected(c) /\ resp[c].error = "Invalid decimals value")

\* The decimals check is the first to fail: decimals fits a u8 and both
\* texts are there and not suspicious.
DecimalsCheckReached(c) ==
    /\ ~LimbsLess(Small(U8_MAX), Field(c, "decimals").mag)
    /\ IsText(c, "mintAuthority") /\ ~Suspicious(Field(c, "mintAuthority").s)
    /\ IsText(c, "mint") /\ ~Suspicious(Field(c, "mint").s)

\* C10, amended: every /token/create request with decimals above 9 is
\* answered with HTTP 400; with "Invalid decimals value" when decimals is
\* at most 255 and mintAuthority and mint are strings that are not
\* suspicious, with "Missing required fields" otherwise.
C10_DecimalsRejected ==
    \A c \in DOMAIN pc :
        (Done(c) /\ req[c].endpoint = "/token/create")
        => /\ CreateOnlyWhenValid(c)
           /\ DecimalsAboveMax(c)
                 => /\ Rejected(c)
                    /\ resp[c].error = (IF DecimalsCheckReached(c)
                                        THEN "Invalid decimals value"
                                        ELSE "Missing required fields")

\* C10 witness: decimals 10 with two good keys has been refused as out of
\* range.
C10_Witness ==
    \E c \in DOMAIN pc :
        /\ Done(c) /\ req[c].endpoint = "/token/create"
        /\ DecimalsAboveMax(c)
        /\ IsText(c, "mintAuthority") /\ ~Malformed(Field(c, "mintAuthority").s)
        /\ IsText(c, "mint") /\ ~Malformed(Field(c, "mint").s)
        /\ Rejected(c) /\ resp[c].error = "Invalid decimals value"

\* The request of c passes every check of its handler: the body
\* deserializes with every member present and no text suspicious, and what
\* the endpoint asks of its keys, numbers and signature holds.
PassesEveryCheck(c) ==
    LET endpoint == req[c].endpoint
    IN  CASE endpoint = "/keypair" -> TRUE
          [] endpoint = "/send/token" -> FALSE
          [] endpoint = "/message/verify" -> WellFormedVerify(c)
          [] endpoint = "/message/sign" ->
                 /\ PassesFieldChecks(c)
                 /\ Base58Decode(Field(c, "secret").s).ok
                 /\ Len(Base58Decode(Field(c, "secret").s).v) = KEYPAIR_LENGTH
                 /\ KeypairFromBytes(Base58Decode(Field(c, "secret").s).v).ok
          [] endpoint = "/token/create" ->
                 /\ PassesFieldChecks(c)
                 /\ ~DecimalsAboveMax(c)
                 /\ \A f \in KeyFields(endpoint) : ~Malformed(Field(c, f).s)
          [] OTHER ->
                 /\ PassesFieldChecks(c)
                 /\ \A f \in KeyFields(endpoint) : ~Malformed(Field(c, f).s)
                 /\ Field(c, AmountField(endpoint)).mag # LimbsZero
                 /\ ~LimbsLess(AmountCeiling(endpoint),
                               Field(c, AmountField(endpoint)).mag)
                 /\ endpoint = "/send/sol"
                       => PubkeyFromStr(Field(c, "from").s)
                              # PubkeyFromStr(Field(c, "to").s)

\* C11: the SDK operation of a handler is invoked at most once for a
\* request, and only when the request has passed every check: a handler is
\* about to invoke it, or has invoked it, only for such a request, and a
\* request that fails a check is answered with its error without the
\* operation having been invoked.
C11_ValidateThenDelegate ==
    \A c \in DOMAIN pc :
        /\ sdkCalls[c] <= 1
        /\ (pc[c] = "sdk" \/ sdkCalls[c] > 0) => PassesEveryCheck(c)
        /\ sdkCalls[c] > 0 => Done(c)
        /\ (Done(c) /\ ~PassesEveryCheck(c)) => (Rejected(c) /\ sdkCalls[c] = 0)

\* C11 witness: mint_to has been invoked, once, for a /token/mint request
\* with nothing wrong, and its instruction is the response.
C11_Witness ==
    \E c \in DOMAIN pc :
        /\ Done(c) /\ req[c].endpoint = "/token/mint"
        /\ PassesEveryCheck(c)
        /\ sdkCalls[c] = 1 /\ resp[c].success

\* The public-key members of an endpoint in the order its handler checks
\* them, each with the error it reports.
KeyChecks(endpoint) ==
    CASE endpoint = "/token/create" ->
             << <<"mintAuthority", "Invalid mint authority">>,
                <<"mint", "Invalid mint address">> >>
      [] endpoint = "/token/mint" ->
             << <<"mint", "Mai error hun :) -- (Mint in endpoint 3)">>,
                <<"destination", "Error from destination in endpoint 3">>,
                <<"authority", "Error from authority in endpoint 3">> >>
      [] endpoint = "/send/sol" ->
             << <<"from", "Invalid from address">>,
                <<"to", "Invalid to address">> >>

\* The positions in KeyChecks of the members of c that are no public key.
MalformedKeys(c) ==
    {i \in DOMAIN KeyChecks(req[c].endpoint) :
        Malformed(Field(c, KeyChecks(req[c].endpoint)[i][1]).s)}

\* The error of the first check the request of c fails, in the order:
\* body and members, suspicious text, decimals, public keys member by
\* member, amount zero, amount too large, same address; "" when it fails
\* none.
FirstError(c) ==
    LET endpoint == req[c].endpoint
        amount   == Field(c, AmountField(endpoint)).mag
    IN  IF ~PassesFieldChecks(c) THEN "Missing required fields"
        ELSE IF endpoint = "/token/create" /\ DecimalsAboveMax(c)
        THEN "Invalid decimals value"
        ELSE IF MalformedKeys(c) # {}
        THEN KeyChecks(endpoint)[SetMin(MalformedKeys(c))][2]
        ELSE IF endpoint = "/token/create" THEN ""
        ELSE IF amount = LimbsZero THEN "Amount must be greater than 0"
        ELSE IF LimbsLess(AmountCeiling(endpoint), amount) THEN "Amount too large"
        ELSE IF /\ endpoint = "/send/sol"
                /\ PubkeyFromStr(Field(c, "from").s) = PubkeyFromStr(Field(c, "to").s)
        THEN "Cannot send to same address"
        ELSE ""

\* C12: on /token/create, /token/mint and /send/sol a request that fails
\* several checks is answered with the error of the first it fails in the
\* fixed order, and a request that fails none with a success; so a
\* malformed public key with amount 0 gets the public-key error.
C12_FirstFailingCheckWins ==
    \A c \in DOMAIN pc :
        (Done(c) /\ req[c].endpoint \in {"/token/create", "/token/mint", "/send/sol"})
        => IF FirstError(c) = ""
           THEN resp[c].success
           ELSE Rejected(c) /\ resp[c].error = FirstError(c)

\* C12 witness: a /token/mint request whose mint is no public key and whose
\* amount is 0, with nothing else wrong, has got the error of the mint.
C12_Witness ==
    \E c \in DOMAIN pc :
        /\ Done(c) /\ req[c].endpoint = "/token/mint"
        /\ PassesFieldChecks(c)
        /\ MalformedKeys(c) = {1}
        /\ Field(c, "amount").mag = LimbsZero
        /\ Rejected(c)
        /\ resp[c].error = "Mai error hun :) -- (Mint in endpoint 3)"

=============================================================================
